---- MODULE Spec2Model ----
(***************************************************************************)
(* The register file (src/register.rs) and the memory map (src/memory.rs)  *)
(* of the Gameboy core, as two independent state machines over one set of  *)
(* variables.  RegSpec drives the RegOps calls of RegDataArray, MemSpec    *)
(* and AddrSpec drive Memory::read_word / Memory::write_word.              *)
(***************************************************************************)
EXTENDS Integers, Sequences, FiniteSets, TLC

VARIABLES
    regs,       \* RegDataArray.0 : [u8; 12], indexed 0..11
    big,        \* cfg!(target_endian = "big") of the build
    mem,        \* Memory: its seven segment buffers and the interrupt byte
    call,       \* the last call made: [op, reg, src, addr, data]
    ret,        \* what the last call returned: <<>> for (), <<v>> for a value
    panic,      \* "none", or the kind of the panic the last call ended in
    ncalls,     \* number of calls made so far
    pre,        \* the register array as it was before the last call
    premem      \* the memory as it was before the last call

vars == <<regs, big, mem, call, ret, panic, ncalls, pre, premem>>

-----------------------------------------------------------------------------
(* Bounds of the exploration *)

\* calls made on one register file in one behaviour of RegSpec
MaxCalls == 1
\* calls made on one memory in one behaviour of MemSpec
MaxMemCalls == 2

-----------------------------------------------------------------------------
(* Fixed-width arithmetic *)

RECURSIVE BitOr(_, _)
\* a | b on naturals
BitOr(a, b) ==
    IF a = 0 THEN b
    ELSE IF b = 0 THEN a
    ELSE (IF (a % 2) + (b % 2) > 0 THEN 1 ELSE 0) + 2 * BitOr(a \div 2, b \div 2)

RECURSIVE BitAnd(_, _)
\* a & b on naturals
BitAnd(a, b) ==
    IF a = 0 \/ b = 0 THEN 0
    ELSE (IF (a % 2) + (b % 2) = 2 THEN 1 ELSE 0) + 2 * BitAnd(a \div 2, b \div 2)

\* (x << 8) in u16
Shl8(x) == (x * 256) % 65536
\* (x >> 8) in u16
Shr8(x) == x \div 256
\* x as u8
AsU8(x) == x % 256

-----------------------------------------------------------------------------
(* register.rs: Register *)

Reg8 == {"A", "B", "C", "D", "E", "F", "H", "L"}
Reg16 == {"AF", "BC", "DE", "HL", "SP", "PC"}
Register == Reg8 \cup Reg16

get_reg_size(reg) == IF reg \in Reg8 THEN 1 ELSE 2

get_idx_for_register(reg) ==
    CASE reg \in {"F", "AF"} -> 0
      [] reg = "A" -> 1
      [] reg \in {"C", "BC"} -> 2
      [] reg = "B" -> 3
      [] reg \in {"E", "DE"} -> 4
      [] reg = "D" -> 5
      [] reg \in {"L", "HL"} -> 6
      [] reg = "H" -> 7
      [] reg = "SP" -> 8
      [] reg = "PC" -> 10

(* register.rs: StatusFlags, a u8 of flag bits *)
Z_FLAG == 128
N_FLAG == 64
H_FLAG == 32
C_FLAG == 16

\* StatusFlags::all().bits()
AllFlagBits == BitOr(BitOr(Z_FLAG, N_FLAG), BitOr(H_FLAG, C_FLAG))

\* every StatusFlags value: the unions of subsets of the four flags
StatusFlags ==
    { BitOr(BitOr(z, n), BitOr(h, c)) :
        z \in {0, Z_FLAG}, n \in {0, N_FLAG}, h \in {0, H_FLAG}, c \in {0, C_FLAG} }

\* StatusFlags::from_bits(b): <<flags>> for Some(flags), <<>> for None
from_bits(b) == IF BitAnd(b, 255 - AllFlagBits) = 0 THEN <<b>> ELSE <<>>

\* StatusFlags::bits(flags)
bits(flags) == flags

-----------------------------------------------------------------------------
(* register.rs: impl RegOps for RegDataArray, as functions of the array *)

SizeMismatch == "SizeMismatch"
InvalidFlagState == "InvalidFlagState"
UnmappedAddress == "UnmappedAddress"

\* the value read_word returns for a 1-byte register
ReadWord(arr, reg) == arr[get_idx_for_register(reg)]

\* the array write_word leaves for a 1-byte register
WriteWord(arr, reg, data) == [arr EXCEPT ![get_idx_for_register(reg)] = data]

\* the value read_dword returns for a 2-byte register on the given target
ReadDword(arr, reg, bigEndian) ==
    LET idx == get_idx_for_register(reg)
        high == arr[idx]
        low == arr[idx + 1]
    IN IF bigEndian THEN BitOr(Shl8(high), low) ELSE BitOr(Shl8(low), high)

\* write_dword's split with the little-endian branch left out
SplitDword_NoSwap(data, bigEndian) ==
    <<AsU8(Shr8(data)), AsU8(BitAnd(data, 255))>>

\* the (high, low) pair write_dword extracts from data on the given target
SplitDword(data, bigEndian) ==
    IF bigEndian THEN <<AsU8(Shr8(data)), AsU8(BitAnd(data, 255))>>
    ELSE <<AsU8(BitAnd(data, 255)), AsU8(Shr8(data))>>

\* the array write_dword leaves for a 2-byte register on the given target
WriteDword(arr, reg, data, bigEndian) ==
    LET idx == get_idx_for_register(reg)
        hl == SplitDword(data, bigEndian)
    IN [arr EXCEPT ![idx] = hl[1], ![idx + 1] = hl[2]]

\* the array copy_reg leaves for two registers of one size
CopyReg(arr, dst, src) ==
    [arr EXCEPT ![get_idx_for_register(dst)] = arr[get_idx_for_register(src)]]

\* what get_flags does on the array: the panic kind and the value returned
GetFlags(arr) ==
    LET f_word == ReadWord(arr, "F")
    IN IF from_bits(f_word) # <<>>
       THEN [panic |-> "none", ret |-> from_bits(f_word)]
       ELSE [panic |-> InvalidFlagState, ret |-> <<>>]

\* set_flags inserting the flags into F instead of replacing F
SetFlags_Or(arr, flags) == WriteWord(arr, "F", BitOr(ReadWord(arr, "F"), bits(flags)))

\* the array set_flags leaves
SetFlags(arr, flags) == WriteWord(arr, "F", bits(flags))

-----------------------------------------------------------------------------
(* memory.rs: the segments of the address space *)

CART_START == 0          \* 0x0000
CART_END == 32767        \* 0x7FFF
CART_SIZE == 1 + (CART_END - CART_START)
VRAM_START == 32768      \* 0x8000
VRAM_END == 40959        \* 0x9FFF
VRAM_SIZE == 1 + (VRAM_END - VRAM_START)
EXRAM_START == 40960     \* 0xA000
EXRAM_END == 49151       \* 0xBFFF
EXRAM_SIZE == 1 + (EXRAM_END - EXRAM_START)
INRAM_START == 49152     \* 0xC000
INRAM_END == 57343       \* 0xDFFF
INRAM_SIZE == 1 + (INRAM_END - INRAM_START)
ERAM_START == 57344      \* 0xE000
ERAM_END == 65023        \* 0xFDFF
OAM_START == 65024       \* 0xFE00
OAM_END == 65183         \* 0xFE9F
OAM_SIZE == 1 + (OAM_END - OAM_START)
IO_START == 65280        \* 0xFF00
IO_END == 65407          \* 0xFF7F
IO_SIZE == 1 + (IO_END - IO_START)
HRAM_START == 65408      \* 0xFF80
HRAM_END == 65534        \* 0xFFFE
HRAM_SIZE == 1 + (HRAM_END - HRAM_START)
INTERRUPT_ENABLE == 65535    \* 0xFFFF

\* type Address = u16
Address == 0..65535

\* the names of Memory's array fields
Segments == {"cart", "vram", "exram", "inram", "oam", "io", "hram"}

\* the length of each array field
SegmentSize(seg) ==
    CASE seg = "cart" -> CART_SIZE
      [] seg = "vram" -> VRAM_SIZE
      [] seg = "exram" -> EXRAM_SIZE
      [] seg = "inram" -> INRAM_SIZE
      [] seg = "oam" -> OAM_SIZE
      [] seg = "io" -> IO_SIZE
      [] seg = "hram" -> HRAM_SIZE

(* A buffer [u8; N] is kept as the function from the indices of its non-zero *)
(* bytes to those bytes; every other byte of the buffer is zero.             *)
ZeroBuffer == [i \in {} |-> 0]

\* buf[idx]
Load(buf, idx) == IF idx \in DOMAIN buf THEN buf[idx] ELSE 0

\* buf[idx] = data
Store(buf, idx, data) ==
    LET dom == IF data = 0 THEN DOMAIN buf \ {idx} ELSE DOMAIN buf \cup {idx}
    IN [i \in dom |-> IF i = idx THEN data ELSE buf[i]]

\* read_word's match with the echo arm indexing from INRAM_START
ReadTarget_EchoFromInramStart(addr) ==
    IF addr = INTERRUPT_ENABLE THEN [seg |-> "interrupt", idx |-> 0]
    ELSE IF addr >= CART_START /\ addr <= CART_END
        THEN [seg |-> "cart", idx |-> addr]
    ELSE IF addr >= VRAM_START /\ addr <= VRAM_END
        THEN [seg |-> "vram", idx |-> addr - VRAM_START]
    ELSE IF addr >= EXRAM_START /\ addr <= EXRAM_END
        THEN [seg |-> "exram", idx |-> addr - EXRAM_START]
    ELSE IF addr >= INRAM_START /\ addr <= INRAM_END
        THEN [seg |-> "inram", idx |-> addr - INRAM_START]
    ELSE IF addr >= ERAM_START /\ addr <= ERAM_END
        THEN [seg |-> "inram", idx |-> addr - INRAM_START]
    ELSE IF addr >= OAM_START /\ addr <= OAM_END
        THEN [seg |-> "oam", idx |-> addr - OAM_START]
    ELSE IF addr >= IO_START /\ addr <= IO_END
        THEN [seg |-> "io", idx |-> addr - IO_START]
    ELSE IF addr >= HRAM_START /\ addr <= HRAM_END
        THEN [seg |-> "hram", idx |-> addr - HRAM_START]
    ELSE [seg |-> "none", idx |-> 0]

\* the match of Memory::read_word: the field and index the address selects
ReadTarget(addr) ==
    IF addr = INTERRUPT_ENABLE THEN [seg |-> "interrupt", idx |-> 0]
    ELSE IF addr >= CART_START /\ addr <= CART_END
        THEN [seg |-> "cart", idx |-> addr]
    ELSE IF addr >= VRAM_START /\ addr <= VRAM_END
        THEN [seg |-> "vram", idx |-> addr - VRAM_START]
    ELSE IF addr >= EXRAM_START /\ addr <= EXRAM_END
        THEN [seg |-> "exram", idx |-> addr - EXRAM_START]
    ELSE IF addr >= INRAM_START /\ addr <= INRAM_END
        THEN [seg |-> "inram", idx |-> addr - INRAM_START]
    ELSE IF addr >= ERAM_START /\ addr <= ERAM_END
        THEN [seg |-> "inram", idx |-> addr - ERAM_START]
    ELSE IF addr >= OAM_START /\ addr <= OAM_END
        THEN [seg |-> "oam", idx |-> addr - OAM_START]
    ELSE IF addr >= IO_START /\ addr <= IO_END
        THEN [seg |-> "io", idx |-> addr - IO_START]
    ELSE IF addr >= HRAM_START /\ addr <= HRAM_END
        THEN [seg |-> "hram", idx |-> addr - HRAM_START]
    ELSE [seg |-> "none", idx |-> 0]

\* write_word's match without the INTERRUPT_ENABLE arm
WriteTarget_NoInterrupt(addr) ==
    IF addr = INTERRUPT_ENABLE THEN [seg |-> "none", idx |-> 0] ELSE ReadTarget(addr)

\* write_word's match with the VRAM arm storing into the cart buffer
WriteTarget_VramIntoCart(addr) ==
    IF addr >= VRAM_START /\ addr <= VRAM_END
    THEN [seg |-> "cart", idx |-> addr - VRAM_START]
    ELSE ReadTarget(addr)

\* the match of Memory::write_word: the field and index the address selects
WriteTarget(addr) ==
    IF addr = INTERRUPT_ENABLE THEN [seg |-> "interrupt", idx |-> 0]
    ELSE IF addr >= CART_START /\ addr <= CART_END
        THEN [seg |-> "cart", idx |-> addr]
    ELSE IF addr >= VRAM_START /\ addr <= VRAM_END
        THEN [seg |-> "vram", idx |-> addr - VRAM_START]
    ELSE IF addr >= EXRAM_START /\ addr <= EXRAM_END
        THEN [seg |-> "exram", idx |-> addr - EXRAM_START]
    ELSE IF addr >= INRAM_START /\ addr <= INRAM_END
        THEN [seg |-> "inram", idx |-> addr - INRAM_START]
    ELSE IF addr >= ERAM_START /\ addr <= ERAM_END
        THEN [seg |-> "inram", idx |-> addr - ERAM_START]
    ELSE IF addr >= OAM_START /\ addr <= OAM_END
        THEN [seg |-> "oam", idx |-> addr - OAM_START]
    ELSE IF addr >= IO_START /\ addr <= IO_END
        THEN [seg |-> "io", idx |-> addr - IO_START]
    ELSE IF addr >= HRAM_START /\ addr <= HRAM_END
        THEN [seg |-> "hram", idx |-> addr - HRAM_START]
    ELSE [seg |-> "none", idx |-> 0]

IndexOutOfBounds == "IndexOutOfBounds"

\* what Memory::read_word does on the memory: the panic kind and the byte returned
MemRead(m, addr) ==
    LET t == ReadTarget(addr)
    IN IF t.seg = "none" THEN [panic |-> UnmappedAddress, ret |-> <<>>]
       ELSE IF t.seg = "interrupt" THEN [panic |-> "none", ret |-> <<m.interrupt>>]
       ELSE IF t.idx >= SegmentSize(t.seg) THEN [panic |-> IndexOutOfBounds, ret |-> <<>>]
       ELSE [panic |-> "none", ret |-> <<Load(m[t.seg], t.idx)>>]

\* what Memory::write_word does on the memory: the panic kind and the memory left
MemWrite(m, addr, data) ==
    LET t == WriteTarget(addr)
    IN IF t.seg = "none" THEN [panic |-> UnmappedAddress, mem |-> m]
       ELSE IF t.seg = "interrupt"
            THEN [panic |-> "none", mem |-> [m EXCEPT !.interrupt = data]]
       ELSE IF t.idx >= SegmentSize(t.seg) THEN [panic |-> IndexOutOfBounds, mem |-> m]
       ELSE [panic |-> "none", mem |-> [m EXCEPT ![t.seg] = Store(@, t.idx, data)]]

-----------------------------------------------------------------------------
(* Construction and the inputs of the calls *)

\* bytes written by write_word
ByteVals == {0, 5, 240, 255}
\* values written by write_dword (main writes 0xAAF0, 0xBBCC, 0xDDEE, 0x8899)
DwordVals == {0, 43760, 48076, 4660, 255, 65535}

\* arrays given to RegDataArray::new: main's [0, 1, ..., 11], an array whose
\* F byte holds the flags Z and C, and one whose F byte is the raw value 0x05
InitArrays ==
    { [i \in 0..11 |-> i],
      [i \in 0..11 |-> IF i = 0 THEN 144 ELSE 17 * i],
      [i \in 0..11 |-> IF i = 0 THEN 5 ELSE 255 - i] }

\* a Memory of zeroed buffers
ZeroMemory ==
    [cart |-> ZeroBuffer, vram |-> ZeroBuffer, exram |-> ZeroBuffer,
     inram |-> ZeroBuffer, oam |-> ZeroBuffer, io |-> ZeroBuffer,
     hram |-> ZeroBuffer, interrupt |-> 0]

\* a Memory in use: a byte at the last index of every buffer, the interrupt byte set
UsedMemory ==
    [cart |-> Store(ZeroBuffer, CART_SIZE - 1, 195),
     vram |-> Store(ZeroBuffer, 0, 60),
     exram |-> Store(ZeroBuffer, EXRAM_SIZE - 1, 10),
     inram |-> Store(Store(ZeroBuffer, 16, 153), INRAM_SIZE - 1, 119),
     oam |-> Store(ZeroBuffer, OAM_SIZE - 1, 14),
     io |-> Store(ZeroBuffer, 0, 207),
     hram |-> Store(ZeroBuffer, HRAM_SIZE - 1, 126),
     interrupt |-> 1]

InitMemories == {ZeroMemory, UsedMemory}

\* bytes written by Memory::write_word
MemVals == {0, 17, 85}

\* the first and last address of every range, the addresses next to the
\* unmapped gap, and addresses inside internal RAM and its echo
SampleAddrs ==
    { CART_START, CART_END, VRAM_START, VRAM_END, EXRAM_START, EXRAM_END,
      INRAM_START, INRAM_START + 16, ERAM_END - 8192, INRAM_END,
      ERAM_START, ERAM_START + 16, ERAM_END, OAM_START, OAM_END,
      OAM_END + 1, IO_START - 1, IO_START, IO_END, HRAM_START, HRAM_END,
      INTERRUPT_ENABLE }

NoCall == [op |-> "new", reg |-> "-", src |-> "-", addr |-> 0, data |-> 0]

\* the state after RegDataArray::new(arr); the memory is not used
RegInit ==
    /\ regs \in InitArrays
    /\ big \in BOOLEAN
    /\ mem = ZeroMemory
    /\ call = NoCall
    /\ ret = <<>>
    /\ panic = "none"
    /\ ncalls = 0
    /\ pre = regs
    /\ premem = mem

\* the state after a Memory is built; the register file is not used
MemInit ==
    /\ regs = [i \in 0..11 |-> i]
    /\ big = FALSE
    /\ mem \in InitMemories
    /\ call = NoCall
    /\ ret = <<>>
    /\ panic = "none"
    /\ ncalls = 0
    /\ pre = regs
    /\ premem = mem

\* the bookkeeping of one call on the register file
RegCalled(op, reg, src, data) ==
    /\ call' = [op |-> op, reg |-> reg, src |-> src, addr |-> 0, data |-> data]
    /\ ncalls' = ncalls + 1
    /\ pre' = regs
    /\ UNCHANGED <<big, mem, premem>>

\* the bookkeeping of one call on the memory
MemCalled(op, addr, data) ==
    /\ call' = [op |-> op, reg |-> "-", src |-> "-", addr |-> addr, data |-> data]
    /\ ncalls' = ncalls + 1
    /\ premem' = mem
    /\ UNCHANGED <<big, regs, pre>>

-----------------------------------------------------------------------------
(* register.rs: the calls of RegOps *)

read_word(reg) ==
    /\ RegCalled("read_word", reg, "-", 0)
    /\ IF get_reg_size(reg) # 1
       THEN panic' = SizeMismatch /\ ret' = <<>>
       ELSE panic' = "none" /\ ret' = <<ReadWord(regs, reg)>>
    /\ UNCHANGED regs

\* write_word without its size check: the low-address byte is written anyway
write_word_unchecked(reg, data) ==
    /\ RegCalled("write_word", reg, "-", data)
    /\ panic' = "none"
    /\ regs' = WriteWord(regs, reg, data)
    /\ ret' = <<>>

write_word(reg, data) ==
    /\ RegCalled("write_word", reg, "-", data)
    /\ IF get_reg_size(reg) # 1
       THEN panic' = SizeMismatch /\ UNCHANGED regs
       ELSE panic' = "none" /\ regs' = WriteWord(regs, reg, data)
    /\ ret' = <<>>

read_dword(reg) ==
    /\ RegCalled("read_dword", reg, "-", 0)
    /\ IF get_reg_size(reg) # 2
       THEN panic' = SizeMismatch /\ ret' = <<>>
       ELSE panic' = "none" /\ ret' = <<ReadDword(regs, reg, big)>>
    /\ UNCHANGED regs

write_dword(reg, data) ==
    /\ RegCalled("write_dword", reg, "-", data)
    /\ IF get_reg_size(reg) # 2
       THEN panic' = SizeMismatch /\ UNCHANGED regs
       ELSE panic' = "none" /\ regs' = WriteDword(regs, reg, data, big)
    /\ ret' = <<>>

copy_reg(dst, src) ==
    /\ RegCalled("copy_reg", dst, src, 0)
    /\ IF get_reg_size(dst) # get_reg_size(src)
       THEN panic' = SizeMismatch /\ UNCHANGED regs
       ELSE panic' = "none" /\ regs' = CopyReg(regs, dst, src)
    /\ ret' = <<>>

get_flags ==
    /\ RegCalled("get_flags", "-", "-", 0)
    /\ panic' = GetFlags(regs).panic
    /\ ret' = GetFlags(regs).ret
    /\ UNCHANGED regs

set_flags(flags) ==
    /\ RegCalled("set_flags", "-", "-", flags)
    /\ panic' = "none"
    /\ regs' = SetFlags(regs, flags)
    /\ ret' = <<>>

\* a call can follow: a panic unwinds the caller, and the run is bounded
CanCall == panic = "none" /\ ncalls < MaxCalls

RegNext ==
    \/ CanCall /\ \E reg \in Register : read_word(reg)
    \/ CanCall /\ \E reg \in Register, data \in ByteVals : write_word(reg, data)
    \/ CanCall /\ \E reg \in Register : read_dword(reg)
    \/ CanCall /\ \E reg \in Register, data \in DwordVals : write_dword(reg, data)
    \/ CanCall /\ \E dst \in Register, src \in Register : copy_reg(dst, src)
    \/ CanCall /\ get_flags
    \/ CanCall /\ \E flags \in StatusFlags : set_flags(flags)

RegSpec == RegInit /\ [][RegNext]_vars

-----------------------------------------------------------------------------
(* memory.rs: the calls of Memory *)

Memory_read_word(addr) ==
    /\ MemCalled("Memory_read_word", addr, 0)
    /\ panic' = MemRead(mem, addr).panic
    /\ ret' = MemRead(mem, addr).ret
    /\ UNCHANGED mem

Memory_write_word(addr, data) ==
    /\ MemCalled("Memory_write_word", addr, data)
    /\ panic' = MemWrite(mem, addr, data).panic
    /\ mem' = MemWrite(mem, addr, data).mem
    /\ ret' = <<>>

\* a call can follow on the memory
CanCallMem == panic = "none" /\ ncalls < MaxMemCalls

\* sequences of calls on the sampled addresses
MemNext ==
    \/ CanCallMem /\ \E addr \in SampleAddrs : Memory_read_word(addr)
    \/ CanCallMem /\ \E addr \in SampleAddrs, data \in MemVals :
                         Memory_write_word(addr, data)

MemSpec == MemInit /\ [][MemNext]_vars

\* one call on a newly built memory, at every address of the address space
AddrNext ==
    \/ call = NoCall /\ \E addr \in Address : Memory_read_word(addr)
    \/ call = NoCall /\ \E addr \in Address, data \in MemVals :
                            Memory_write_word(addr, data)

AddrSpec == MemInit /\ [][AddrNext]_vars

-----------------------------------------------------------------------------
(* Properties of the register file, checked under RegSpec *)

RegWrote(op) == call.op = op /\ panic = "none"

\* C1: for every 2-byte register r, every value v, every prior array and both
\* targets, read_dword(r) right after write_dword(r, v) returns v.
C1_DwordRoundTrip ==
    RegWrote("write_dword") => ReadDword(regs, call.reg, big) = call.data

\* C1 happens: a big-endian build wrote 0xAAF0 to SP over main's array
C1_Witness ==
    /\ RegWrote("write_dword") /\ big
    /\ call.reg = "SP" /\ call.data = 43760 /\ pre[8] = 8

\* C2: copy_reg(dst, src) on registers of one size leaves in dst everything
\* src held: the byte for 1-byte registers, both bytes for 2-byte registers.
C2_CopyCopiesEveryByte ==
    RegWrote("copy_reg") =>
        IF call.reg \in Reg8
        THEN ReadWord(regs, call.reg) = ReadWord(pre, call.src)
        ELSE ReadDword(regs, call.reg, big) = ReadDword(pre, call.src, big)

\* C3: a successful write_word, write_dword, copy_reg or set_flags made in a
\* state whose F byte has a zero low nibble leaves the low nibble of F zero.
C3_FLowNibbleStaysZero ==
    ( /\ call.op \in {"write_word", "write_dword", "copy_reg", "set_flags"}
      /\ panic = "none"
      /\ BitAnd(pre[0], 15) = 0 )
    => BitAnd(regs[0], 15) = 0

PairLow(reg) ==
    CASE reg = "AF" -> "F" [] reg = "BC" -> "C" [] reg = "DE" -> "E" [] reg = "HL" -> "L"

PairHigh(reg) ==
    CASE reg = "AF" -> "A" [] reg = "BC" -> "B" [] reg = "DE" -> "D" [] reg = "HL" -> "H"

\* C4: after write_dword(XY, v) on AF, BC, DE or HL, read_word of the low
\* register (F, C, E, L) is v mod 256 and of the high register is v div 256.
C4_PairAliasing ==
    (RegWrote("write_dword") /\ call.reg \in {"AF", "BC", "DE", "HL"}) =>
        /\ ReadWord(regs, PairLow(call.reg)) = call.data % 256
        /\ ReadWord(regs, PairHigh(call.reg)) = call.data \div 256

\* C5: the array write_dword(r, v) leaves is the same on a little-endian and
\* on a big-endian target, from the same array and with the same call.
C5_SameBytesOnBothTargets ==
    RegWrote("write_dword") =>
        /\ regs = WriteDword(pre, call.reg, call.data, big)
        /\ WriteDword(pre, call.reg, call.data, TRUE)
             = WriteDword(pre, call.reg, call.data, FALSE)

\* the size classes of the call's registers do not fit the operation
C6_Mismatched ==
    \/ call.op \in {"read_word", "write_word"} /\ call.reg \in Reg16
    \/ call.op \in {"read_dword", "write_dword"} /\ call.reg \in Reg8
    \/ call.op = "copy_reg" /\ (call.reg \in Reg8) # (call.src \in Reg8)

\* C6: a word call on a 2-byte register, a dword call on a 1-byte register and
\* a copy across size classes panic with SizeMismatch and leave all 12 bytes
\* as they were; the same calls with fitting sizes do not panic.
C6_SizeMismatchRejected ==
    call.op \in {"read_word", "write_word", "read_dword", "write_dword", "copy_reg"} =>
        /\ C6_Mismatched => panic = SizeMismatch /\ regs = pre /\ ret = <<>>
        /\ ~C6_Mismatched => panic = "none"

\* C6 happens: copy_reg(A, BC) panicked
C6_Witness ==
    /\ call.op = "copy_reg" /\ call.reg = "A" /\ call.src = "BC"
    /\ panic = SizeMismatch

\* C10: for each of the 16 flag sets f and every prior array, set_flags(f)
\* succeeds, get_flags then returns f, the low nibble of F is zero, and no byte
\* other than byte 0 has changed.
C10_FlagsRoundTrip ==
    call.op = "set_flags" =>
        /\ panic = "none"
        /\ GetFlags(regs) = [panic |-> "none", ret |-> <<call.data>>]
        /\ regs[0] % 16 = 0
        /\ \A i \in 1..11 : regs[i] = pre[i]

\* C10 happens: set_flags(Z | C) over an array whose F byte held H
C10_Witness ==
    /\ call.op = "set_flags" /\ call.data = Z_FLAG + C_FLAG
    /\ pre[0] = 144 /\ pre[1] = 17

-----------------------------------------------------------------------------
(* Properties of the memory map *)

IsMemCall == call.op \in {"Memory_read_word", "Memory_write_word"}
MemWrote == call.op = "Memory_write_word" /\ panic = "none"

\* the storage locations whose byte differs between two memories
Changed(m1, m2) ==
    UNION { { <<seg, i>> : i \in { j \in DOMAIN m1[seg] \cup DOMAIN m2[seg] :
                                     Load(m1[seg], j) # Load(m2[seg], j) } } :
            seg \in Segments }
    \cup (IF m1.interrupt # m2.interrupt THEN {<<"interrupt", 0>>} ELSE {})

\* C7 (AddrSpec): a call at any address touches at most one storage location,
\* at an index inside its buffer; 0xFFFF is the interrupt byte and no segment;
\* the calls panic with UnmappedAddress at exactly 0xFEA0..0xFEFF and succeed
\* at every other address; a panicking write changes nothing.
C7_AddressResolution ==
    IsMemCall =>
        LET a == call.addr
            gap == a >= 65184 /\ a <= 65279
        IN /\ gap => panic = UnmappedAddress
           /\ ~gap => panic = "none"
           /\ panic # "none" => mem = premem
           /\ Cardinality(Changed(premem, mem)) <= 1
           /\ \A seg \in Segments : \A i \in DOMAIN mem[seg] : i < SegmentSize(seg)
           /\ (a = 65535 /\ call.op = "Memory_write_word") =>
                  mem = [premem EXCEPT !.interrupt = call.data]
           /\ (a = 65535 /\ call.op = "Memory_read_word") =>
                  ret = <<premem.interrupt>>
           /\ (a # 65535 /\ call.op = "Memory_write_word" /\ ~gap) =>
                  /\ mem.interrupt = premem.interrupt
                  /\ call.data # MemRead(premem, a).ret[1] =>
                         Cardinality(Changed(premem, mem)) = 1

\* C7 happens: a write at 0xFEFF, the last address of the gap, panicked on a
\* memory in use
C7_Witness ==
    /\ call.op = "Memory_write_word" /\ call.addr = 65279 /\ call.data = 85
    /\ panic = UnmappedAddress /\ premem = UsedMemory /\ mem = UsedMemory

InEcho(a) == a >= 57344 /\ a <= 65023

\* C8 (AddrSpec): a byte written at an internal-RAM address is read at the echo
\* address 0x2000 above it, a byte written at an echo address is read at the
\* internal-RAM address 0x2000 below it, and both addresses always read alike.
C8_EchoMirrors ==
    /\ \A e \in { x \in SampleAddrs : InEcho(x) } :
           MemRead(mem, e) = MemRead(mem, e - 8192)
    /\ (MemWrote /\ InEcho(call.addr)) =>
           /\ MemRead(mem, call.addr - 8192) = [panic |-> "none", ret |-> <<call.data>>]
           /\ MemRead(mem, call.addr) = [panic |-> "none", ret |-> <<call.data>>]
    /\ (MemWrote /\ InEcho(call.addr + 8192)) =>
           /\ MemRead(mem, call.addr + 8192) = [panic |-> "none", ret |-> <<call.data>>]
           /\ MemRead(mem, call.addr) = [panic |-> "none", ret |-> <<call.data>>]

\* C8 happens: 0x55 written at 0xE010 over internal RAM that held 0x99 at 0xC010
C8_Witness ==
    /\ MemWrote /\ call.addr = 57360 /\ call.data = 85
    /\ MemRead(premem, 49168).ret = <<153>>

\* the other address of the byte at a, when a is mirrored
Alias(a) ==
    IF InEcho(a) THEN {a - 8192}
    ELSE IF InEcho(a + 8192) THEN {a + 8192}
    ELSE {}

\* C9 (MemSpec): after a successful write at a, a read at a returns the byte
\* written and a read at any other address but a's mirror returns what it
\* returned before; a write at 0xFFFF leaves all of high RAM as it was.
C9_WriteFrame ==
    MemWrote =>
        LET a == call.addr
            others == (SampleAddrs \cup (IF a = 65535 THEN 65408..65534 ELSE {}))
                          \ ({a} \cup Alias(a))
        IN /\ MemRead(mem, a) = [panic |-> "none", ret |-> <<call.data>>]
           /\ \A b \in others : MemRead(mem, b) = MemRead(premem, b)

\* C9 happens: 0x11 written at 0xFFFF while the last byte of high RAM held 0x7E,
\* after an earlier call
C9_Witness ==
    /\ MemWrote /\ call.addr = 65535 /\ call.data = 17 /\ ncalls = 2
    /\ MemRead(premem, 65534).ret = <<126>>

====
